---- MODULE Spec2Model ----
(***************************************************************************)
(* A model of phospho's lab runner (phospho/lab/lab.py: Job, Workload) and *)
(* of its payload normalizer (phospho-python/phospho/extractor.py).        *)
(*                                                                         *)
(* SpecN  : the normalizer.  One behaviour is any sequence of calls of     *)
(*          detect_str_from_output, extract_data_from_output and           *)
(*          extract_metadata_from_input_output on payloads of every shape. *)
(* Spec   : the Workload runner.  One behaviour builds one Workload with  *)
(*          add_job and then makes any sequence of Workload.run calls on   *)
(*          it (jobs are registered before the first run, as from_config   *)
(*          does); the pool workers of the parallel mode interleave        *)
(*          freely.                                                        *)
(***************************************************************************)
EXTENDS Integers, Sequences, FiniteSets, TLC

VARIABLES
    jobs,           \* Workload.jobs: the registered Job objects, in order
    results,        \* Workload.results: message.id -> job_id -> JobResult
    messages,       \* argument of the Workload.run call in progress
    executor_type,  \* argument of the Workload.run call in progress
    pc,             \* position of the Workload.run call
    job_idx,        \* position in `for job in self.jobs`
    msg_idx,        \* position in `for one_message in messages` (sequential)
    futures,        \* the tasks of the pool of the current job (parallel)
    outcome,        \* how the Workload.run call ended (pc = "ended")
    old_results,    \* history: Workload.results when the call started
    dispatched,     \* history: positions of the jobs dispatched by the call
    invocations,    \* history: <<job position, message position>> -> calls
    stores,         \* history: <<job position, message.id>> -> writes
    finished,       \* history: the job.run calls that have ended
    raised,         \* history: the job.run calls whose function raised
    call,           \* the last normalizer call: its function and arguments
    ret             \* what that call returned, or the exception it raised

wvars == <<jobs, results, messages, executor_type, pc, job_idx, msg_idx,
           futures, outcome, old_results, dispatched, invocations, stores,
           finished, raised>>

nvars == <<call, ret>>

vars == <<wvars, nvars>>

----------------------------------------------------------------------------
(* Bounds of the model. *)

MaxJobs == 2
MaxMsgs == 2

(* Python's None where a string is expected. *)
None == "None"

(* The arguments Job(...) is constructed with: a job function, an optional *)
(* job_id and the params bound to the function.                            *)
JobArgs ==
    { [job_function |-> "f", job_id |-> None, params |-> 1],
      [job_function |-> "g", job_id |-> None, params |-> 1],
      [job_function |-> "g", job_id |-> "f",  params |-> 2] }

(* The messages a caller passes: Message(id, content). *)
Messages ==
    { [id |-> "m1", content |-> "ok"],
      [id |-> "m1", content |-> "bad"],
      [id |-> "m2", content |-> "ok"] }

ExecutorTypes == {"parallel", "sequential", "threads"}

RECURSIVE SeqsUpTo(_, _)
SeqsUpTo(S, n) ==
    IF n = 0 THEN {<<>>}
    ELSE LET shorter == SeqsUpTo(S, n - 1)
         IN  shorter \cup
             {Append(s, x) : s \in {t \in shorter : Len(t) = n - 1}, x \in S}

EmptyDict == [k \in {} |-> 0]

(* d[k] = v of a Python dict. *)
SetItem(d, k, v) == [x \in DOMAIN d \cup {k} |-> IF x = k THEN v ELSE d[x]]

----------------------------------------------------------------------------
(* The job functions: user code, deterministic.  "f" raises on the content *)
(* "bad"; every other call returns a value that records the function, the  *)
(* message and the params it was applied to.                               *)

Raises(fn, message) == fn = "f" /\ message.content = "bad"

JobFunction(fn, message, params) ==
    [fn |-> fn, id |-> message.id, content |-> message.content,
     params |-> params]

NoResult == [fn |-> "", id |-> "", content |-> "", params |-> 0]

(* Job.__init__: job_id defaults to the function's name; job_results = {}. *)
Job(args) ==
    [job_function |-> args.job_function,
     job_id       |-> IF args.job_id = None THEN args.job_function
                                             ELSE args.job_id,
     params       |-> args.params,
     job_results  |-> EmptyDict]

(* self.job_results[message.id] = result, in the job at position k. *)
StoreResult(js, k, id, result) ==
    [js EXCEPT ![k].job_results = SetItem(@, id, result)]

Count(f, x) == IF x \in DOMAIN f THEN f[x] ELSE 0

Bump(f, x) == SetItem(f, x, Count(f, x) + 1)

----------------------------------------------------------------------------
(* The normalizer (extractor.py).  A Python value is a record tagged with  *)
(* its kind; a call ends with a value or with PError(exception).           *)

PNone == [kind |-> "none"]
PStr(s) == [kind |-> "str", s |-> s]
PInt(n) == [kind |-> "int", n |-> n]
PBytes(s) == [kind |-> "bytes", s |-> s]
PList(elems) == [kind |-> "list", elems |-> elems]
PTuple(elems) == [kind |-> "tuple", elems |-> elems]
PDict(items) == [kind |-> "dict", items |-> items]
(* An instance of a pydantic.BaseModel subclass named cls. *)
PModel(cls, fields) == [kind |-> "model", cls |-> cls, fields |-> fields]
(* Any other object; conv is what dict(x) does with it. *)
PObject(conv) == [kind |-> "object", conv |-> conv]
PError(exc) == [kind |-> "raise", exc |-> exc]

IsError(x) == x.kind = "raise"

(* No rule of a cascade applied: control falls through. *)
NoMatch == [kind |-> "nomatch"]

(* str(x): a string is itself, any other value gives its printed form. *)
Str(x) ==
    IF x.kind = "str" THEN x
    ELSE IF x.kind = "int" THEN PStr(ToString(x.n))
    ELSE [kind |-> "str", s |-> "repr", of |-> x]

(* getattr(x, name, default): only model instances carry these fields. *)
HasAttr(x, name) == x.kind = "model" /\ name \in DOMAIN x.fields

GetAttr(x, name, default) == IF HasAttr(x, name) THEN x.fields[name] ELSE default

(* d.get(k, default) of a dict d. *)
DictGet(d, k, default) == IF k \in DOMAIN d.items THEN d.items[k] ELSE default

(* d.update(u) *)
Update(d, u) ==
    PDict([k \in DOMAIN d.items \cup DOMAIN u.items |->
              IF k \in DOMAIN u.items THEN u.items[k] ELSE d.items[k]])

(* json.loads on the texts of the model: an object, or a decode error      *)
(* (json.JSONDecodeError is a ValueError).                                 *)
JsonLoads(text) ==
    IF text = "{\"response\": \"R\"}" THEN PDict([response |-> PStr("R")])
    ELSE IF text = "{\"choices\": [{\"delta\": {\"content\": null}}]}"
    THEN PDict([choices |->
                  PList(<<PDict([delta |-> PDict([content |-> PNone])])>>)])
    ELSE PError("ValueError")

(* BaseModel.model_dump(): the fields as a dict, nested models dumped. *)
RECURSIVE Dump(_)
Dump(x) ==
    IF x.kind = "model"
    THEN PDict([f \in DOMAIN x.fields |-> Dump(x.fields[f])])
    ELSE IF x.kind = "dict"
    THEN PDict([k \in DOMAIN x.items |-> Dump(x.items[k])])
    ELSE IF x.kind = "list"
    THEN PList([i \in DOMAIN x.elems |-> Dump(x.elems[i])])
    ELSE x

model_dump(x) == Dump(x)

convert_to_dict(x) ==
    IF x.kind = "dict" THEN x
    ELSE IF x.kind = "model" THEN model_dump(x)
    ELSE IF x.kind = "str" THEN JsonLoads(x.s)
    ELSE IF x.kind = "bytes" THEN JsonLoads(x.s)
    ELSE IF x.kind = "object" /\ x.conv = "pairs"
    THEN PDict([k |-> PStr("v")])
    ELSE IF x.kind = "object" /\ x.conv = "ValueError"
    THEN PError("ValueError")
    ELSE PError("NotImplementedError")

(* utils.is_jsonable: json.dumps(x) succeeds. *)
RECURSIVE is_jsonable(_)
is_jsonable(x) ==
    IF x.kind \in {"none", "str", "int"} THEN TRUE
    ELSE IF x.kind = "dict"
    THEN \A k \in DOMAIN x.items : is_jsonable(x.items[k])
    ELSE IF x.kind \in {"list", "tuple"}
    THEN \A i \in DOMAIN x.elems : is_jsonable(x.elems[i])
    ELSE FALSE

(* utils.filter_nonjsonable_keys: the items of a mapping whose value is    *)
(* serializable.                                                           *)
filter_nonjsonable_keys(d) ==
    PDict([k \in {j \in DOMAIN d.items : is_jsonable(d.items[j])}
              |-> d.items[k]])

(* Lines 112-131: an OpenAI model instance. *)
ModelRule(output) ==
    IF output.kind = "model"
        /\ output.cls \in {"ChatCompletion", "ChatCompletionChunk"}
    THEN LET choices == GetAttr(output, "choices", PNone)
         IN  IF choices.kind = "list" /\ Len(choices.elems) > 0
             THEN IF output.cls = "ChatCompletion"
                  THEN LET message == GetAttr(choices.elems[1], "message", PNone)
                           content == GetAttr(message, "content", PNone)
                       IN  IF content # PNone THEN Str(content) ELSE NoMatch
                  ELSE IF ~HasAttr(choices.elems[1], "delta")
                       THEN PError("AttributeError")
                       ELSE LET choice_delta == choices.elems[1].fields.delta
                                content == GetAttr(choice_delta, "content", PNone)
                            IN  IF content # PNone THEN Str(content)
                                                   ELSE PStr("")
             ELSE NoMatch
    ELSE NoMatch

(* Mutant of ChoicesRule: a chunk without content falls through, as a      *)
(* message without content does.                                           *)
ChoicesRuleChunkFallsThrough(choices) ==
    IF choices.kind = "list" /\ Len(choices.elems) > 0
    THEN LET choice == choices.elems[1]
         IN  IF choice.kind # "dict" THEN PError("AttributeError")
             ELSE LET message == DictGet(choice, "message", PNone)
                  IN  IF message # PNone
                      THEN IF message.kind # "dict"
                           THEN PError("AttributeError")
                           ELSE LET content == DictGet(message, "content", PNone)
                                IN  IF content # PNone THEN Str(content)
                                                       ELSE NoMatch
                      ELSE LET choice_delta ==
                                   DictGet(choice, "delta", PDict(EmptyDict))
                           IN  IF choice_delta.kind # "dict"
                               THEN PError("AttributeError")
                               ELSE LET content ==
                                            DictGet(choice_delta, "content", PNone)
                                    IN  IF content # PNone THEN Str(content)
                                                           ELSE NoMatch
    ELSE NoMatch

(* Lines 136-153: output["choices"] of a dict.  `.get` exists on dicts     *)
(* only, so an element, a message or a delta of another kind raises        *)
(* AttributeError.                                                         *)
ChoicesRule(choices) ==
    IF choices.kind = "list" /\ Len(choices.elems) > 0
    THEN LET choice == choices.elems[1]
         IN  IF choice.kind # "dict" THEN PError("AttributeError")
             ELSE LET message == DictGet(choice, "message", PNone)
                  IN  IF message # PNone
                      THEN IF message.kind # "dict"
                           THEN PError("AttributeError")
                           ELSE LET content == DictGet(message, "content", PNone)
                                IN  IF content # PNone THEN Str(content)
                                                       ELSE NoMatch
                      ELSE LET choice_delta ==
                                   DictGet(choice, "delta", PDict(EmptyDict))
                           IN  IF choice_delta.kind # "dict"
                               THEN PError("AttributeError")
                               ELSE LET content ==
                                            DictGet(choice_delta, "content", PNone)
                                    IN  IF content # PNone THEN Str(content)
                                                           ELSE PStr("")
    ELSE NoMatch

(* Lines 133-157: a dict, the `choices` rule before the `response` rule. *)
DictRule(output) ==
    IF output.kind = "dict"
    THEN LET viaChoices == IF "choices" \in DOMAIN output.items
                           THEN ChoicesRule(output.items.choices)
                           ELSE NoMatch
         IN  IF viaChoices # NoMatch THEN viaChoices
             ELSE IF "response" \in DOMAIN output.items
             THEN output.items.response
             ELSE NoMatch
    ELSE NoMatch

detect_str_from_output(output0) ==
    LET converted == IF output0.kind = "bytes" THEN convert_to_dict(output0)
                                               ELSE output0
        output == IF IsError(converted) THEN output0 ELSE converted
        viaModel == ModelRule(output)
        viaDict == DictRule(output)
    IN  IF viaModel # NoMatch THEN viaModel
        ELSE IF viaDict # NoMatch THEN viaDict
        ELSE Str(output)

detect_usage_from_input_output(input, output0) ==
    LET output == IF output0.kind = "model" THEN model_dump(output0)
                                            ELSE output0
    IN  IF output.kind = "dict"
        THEN IF "usage" \in DOMAIN output.items THEN output.items.usage
             ELSE IF DictGet(output, "object", PNone)
                        = PStr("chat.completion.chunk")
             THEN PDict([completion_tokens |-> PInt(1)])
             ELSE PNone
        ELSE PNone

detect_model_from_input_output(input, output) ==
    IF output.kind = "dict" /\ "model" \in DOMAIN output.items
    THEN output.items.model
    ELSE IF input.kind = "dict" /\ "model" \in DOMAIN input.items
    THEN input.items.model
    ELSE PNone

(* Lines 230-249: one of output and raw_output to its loggable form. *)
RawToLog(x) ==
    IF ~is_jsonable(x)
    THEN LET d == convert_to_dict(x)
         IN  IF IsError(d) THEN d ELSE filter_nonjsonable_keys(d)
    ELSE x

extract_data_from_output(output, raw_output) ==
    LET output_to_log ==
            IF output = PNone THEN PNone
            ELSE IF output.kind = "str" THEN output
            ELSE detect_str_from_output(output)
        raw_first ==
            IF output = PNone THEN PNone
            ELSE IF output.kind = "str" THEN output
            ELSE IF IsError(output_to_log) THEN output_to_log
            ELSE RawToLog(output)
        raw_output_to_log ==
            IF IsError(raw_first) THEN raw_first
            ELSE IF raw_output # PNone THEN RawToLog(raw_output)
            ELSE raw_first
    IN  IF IsError(output_to_log) THEN output_to_log
        ELSE IF IsError(raw_output_to_log) THEN raw_output_to_log
        ELSE PTuple(<<output_to_log, raw_output_to_log>>)

extract_metadata_from_input_output(input, output) ==
    LET usage == detect_usage_from_input_output(input, output)
        model == detect_model_from_input_output(input, output)
        with_usage ==
            IF usage = PNone THEN PDict(EmptyDict)
            ELSE IF usage.kind # "dict" THEN PError("TypeError")
            ELSE Update(PDict(EmptyDict), usage)
    IN  IF IsError(with_usage) THEN with_usage
        ELSE IF model # PNone
        THEN Update(with_usage, PDict([model |-> model]))
        ELSE with_usage

----------------------------------------------------------------------------
Init ==
    /\ jobs = <<>>
    /\ results = EmptyDict
    /\ messages = <<>>
    /\ executor_type = "parallel"
    /\ pc = "setup"
    /\ job_idx = 0
    /\ msg_idx = 0
    /\ futures = <<>>
    /\ outcome = "none"
    /\ old_results = EmptyDict
    /\ dispatched = {}
    /\ invocations = EmptyDict
    /\ stores = EmptyDict
    /\ finished = {}
    /\ raised = {}
    /\ call = [fn |-> "none", args |-> <<>>]
    /\ ret = [kind |-> "none"]

(* Workload.add_job, while the workload is being built. *)
add_job(args) ==
    /\ UNCHANGED nvars
    /\ pc = "setup"
    /\ Len(jobs) < MaxJobs
    /\ jobs' = Append(jobs, Job(args))
    /\ UNCHANGED <<results, messages, executor_type, pc, job_idx, msg_idx,
                   futures, outcome, old_results, dispatched, invocations,
                   stores, finished, raised>>

(* Workload.run is entered. *)
RunStart(msgs, et) ==
    /\ UNCHANGED nvars
    /\ pc \in {"setup", "idle"}
    /\ messages' = msgs
    /\ executor_type' = et
    /\ pc' = "loop"
    /\ job_idx' = 1
    /\ old_results' = results
    /\ UNCHANGED <<jobs, results, msg_idx, futures, outcome, dispatched,
                   invocations, stores, finished, raised>>

(* Control is back in the caller of Workload.run, with the table or the    *)
(* exception; the locals of the call and its history are gone.             *)
RunEnd ==
    /\ UNCHANGED nvars
    /\ pc = "ended"
    /\ pc' = "idle"
    /\ messages' = <<>>
    /\ executor_type' = "parallel"
    /\ job_idx' = 0
    /\ msg_idx' = 0
    /\ futures' = <<>>
    /\ outcome' = "none"
    /\ old_results' = EmptyDict
    /\ dispatched' = {}
    /\ invocations' = EmptyDict
    /\ stores' = EmptyDict
    /\ finished' = {}
    /\ raised' = {}
    /\ UNCHANGED <<jobs, results>>

(* Mutant of Submitted: only the first message is handed to a worker. *)
SubmittedFirstOnly(msgs) ==
    [i \in 1..Len(msgs) |->
        [state |-> IF i = 1 THEN "pending" ELSE "done", result |-> NoResult]]

(* The pool of one job: executor.map submits one job.run per message. *)
Submitted(msgs) ==
    [i \in 1..Len(msgs) |-> [state |-> "pending", result |-> NoResult]]

(* One iteration of `for job in self.jobs`: the executor_type is looked at *)
(* here, inside the loop.                                                  *)
LoopJob ==
    /\ UNCHANGED nvars
    /\ pc = "loop"
    /\ IF job_idx > Len(jobs)
       THEN /\ pc' = "collect"
            /\ UNCHANGED <<msg_idx, futures, outcome, dispatched>>
       ELSE IF executor_type = "parallel"
       THEN /\ pc' = "pool"
            /\ futures' = Submitted(messages)
            /\ dispatched' = dispatched \cup {job_idx}
            /\ UNCHANGED <<msg_idx, outcome>>
       ELSE IF executor_type = "sequential"
       THEN /\ pc' = "seq"
            /\ msg_idx' = 1
            /\ dispatched' = dispatched \cup {job_idx}
            /\ UNCHANGED <<futures, outcome>>
       ELSE /\ pc' = "ended"
            /\ outcome' = "NotImplementedError"
            /\ UNCHANGED <<msg_idx, futures, dispatched>>
    /\ UNCHANGED <<jobs, results, messages, executor_type, job_idx,
                   old_results, invocations, stores, finished, raised>>

(* Sequential mode: job.run(one_message), a whole Job.run call; an         *)
(* exception of the job function leaves Workload.run.                      *)
SeqRun ==
    /\ UNCHANGED nvars
    /\ pc = "seq"
    /\ IF msg_idx > Len(messages)
       THEN /\ pc' = "loop"
            /\ job_idx' = job_idx + 1
            /\ UNCHANGED <<jobs, msg_idx, outcome, invocations, stores,
                           finished, raised>>
       ELSE LET job == jobs[job_idx]
                m   == messages[msg_idx]
                t   == <<job_idx, msg_idx>>
            IN  /\ invocations' = Bump(invocations, t)
                /\ finished' = finished \cup {t}
                /\ IF Raises(job.job_function, m)
                   THEN /\ raised' = raised \cup {t}
                        /\ pc' = "ended"
                        /\ outcome' = "JobError"
                        /\ UNCHANGED <<jobs, msg_idx, stores>>
                   ELSE /\ jobs' = StoreResult(jobs, job_idx, m.id,
                               JobFunction(job.job_function, m, job.params))
                        /\ stores' = Bump(stores, <<job_idx, m.id>>)
                        /\ msg_idx' = msg_idx + 1
                        /\ UNCHANGED <<pc, outcome, raised>>
                /\ UNCHANGED job_idx
    /\ UNCHANGED <<results, messages, executor_type, futures, old_results,
                   dispatched>>

(* Parallel mode, a pool worker at Job.run line 60: the job function is    *)
(* called.  An exception ends the task and stays in its future, which      *)
(* nobody reads.                                                           *)
PoolInvoke(i) ==
    /\ UNCHANGED nvars
    /\ pc = "pool"
    /\ i \in DOMAIN futures
    /\ futures[i].state = "pending"
    /\ LET job == jobs[job_idx]
           m   == messages[i]
           t   == <<job_idx, i>>
       IN  /\ invocations' = Bump(invocations, t)
           /\ IF Raises(job.job_function, m)
              THEN /\ futures' = [futures EXCEPT ![i].state = "failed"]
                   /\ raised' = raised \cup {t}
                   /\ finished' = finished \cup {t}
              ELSE /\ futures' = [futures EXCEPT ![i] =
                        [state |-> "running",
                         result |-> JobFunction(job.job_function, m,
                                                job.params)]]
                   /\ UNCHANGED <<raised, finished>>
    /\ UNCHANGED <<jobs, results, messages, executor_type, pc, job_idx,
                   msg_idx, outcome, old_results, dispatched, stores>>

(* Mutant of PoolStore: the workers share the loop variable and store     *)
(* under the id of the last message submitted.                             *)
PoolStoreSharedKey(i) ==
    /\ UNCHANGED nvars
    /\ pc = "pool"
    /\ i \in DOMAIN futures
    /\ futures[i].state = "running"
    /\ jobs' = StoreResult(jobs, job_idx, messages[Len(messages)].id,
                           futures[i].result)
    /\ stores' = Bump(stores, <<job_idx, messages[i].id>>)
    /\ futures' = [futures EXCEPT ![i].state = "done"]
    /\ finished' = finished \cup {<<job_idx, i>>}
    /\ UNCHANGED <<results, messages, executor_type, pc, job_idx, msg_idx,
                   outcome, old_results, dispatched, invocations, raised>>

(* Parallel mode, a pool worker at Job.run lines 61-62: the result is      *)
(* stored under message.id and the task ends.                              *)
PoolStore(i) ==
    /\ UNCHANGED nvars
    /\ pc = "pool"
    /\ i \in DOMAIN futures
    /\ futures[i].state = "running"
    /\ jobs' = StoreResult(jobs, job_idx, messages[i].id, futures[i].result)
    /\ stores' = Bump(stores, <<job_idx, messages[i].id>>)
    /\ futures' = [futures EXCEPT ![i].state = "done"]
    /\ finished' = finished \cup {<<job_idx, i>>}
    /\ UNCHANGED <<results, messages, executor_type, pc, job_idx, msg_idx,
                   outcome, old_results, dispatched, invocations, raised>>

(* Mutant of JoinReady: shutdown does not wait for the tasks. *)
JoinNoWait(fs) == TRUE

(* The end of `with ThreadPoolExecutor() as executor`: shutdown(wait=True) *)
(* returns once every submitted task has ended.                            *)
JoinReady(fs) == \A i \in DOMAIN fs : fs[i].state \in {"done", "failed"}

PoolJoin ==
    /\ UNCHANGED nvars
    /\ pc = "pool"
    /\ JoinReady(futures)
    /\ pc' = "loop"
    /\ job_idx' = job_idx + 1
    /\ futures' = <<>>
    /\ UNCHANGED <<jobs, results, messages, executor_type, msg_idx, outcome,
                   old_results, dispatched, invocations, stores, finished,
                   raised>>

(* Lines 143-152: the table is built from every job's job_results.         *)
MessageIds(msgs) == {msgs[i].id : i \in DOMAIN msgs}

JobIds(js) == {js[k].job_id : k \in DOMAIN js}

(* Mutant of LastJobWithId: the first job registered under an id wins. *)
FirstJobWithId(js, jid) ==
    CHOOSE k \in DOMAIN js :
        /\ js[k].job_id = jid
        /\ \A l \in DOMAIN js : js[l].job_id = jid => k <= l

(* The job whose assignment to results[id][job_id] comes last. *)
LastJobWithId(js, jid) ==
    CHOOSE k \in DOMAIN js :
        /\ js[k].job_id = jid
        /\ \A l \in DOMAIN js : js[l].job_id = jid => l <= k

(* job.job_results[one_message.id] raises KeyError for some pair. *)
MissingPair(js, msgs) ==
    \E i \in DOMAIN msgs, k \in DOMAIN js :
        msgs[i].id \notin DOMAIN js[k].job_results

ResultTable(js, msgs) ==
    [id \in MessageIds(msgs) |->
        [jid \in JobIds(js) |-> js[LastJobWithId(js, jid)].job_results[id]]]

(* Mutant of CollectResults: a missing pair is left out of the table. *)
CollectResultsSkipMissing(js, msgs) ==
    [error |-> None,
     table |-> [id \in MessageIds(msgs) |->
                  [jid \in {j \in JobIds(js) :
                              id \in DOMAIN js[LastJobWithId(js, j)].job_results}
                     |-> js[LastJobWithId(js, jid)].job_results[id]]]]

CollectResults(js, msgs) ==
    IF MissingPair(js, msgs)
    THEN [error |-> "KeyError", table |-> EmptyDict]
    ELSE [error |-> None, table |-> ResultTable(js, msgs)]

Collect ==
    /\ UNCHANGED nvars
    /\ pc = "collect"
    /\ pc' = "ended"
    /\ LET built == CollectResults(jobs, messages)
       IN  IF built.error # None
           THEN /\ outcome' = built.error
                /\ UNCHANGED results
           ELSE /\ outcome' = "returned"
                /\ results' = built.table
    /\ UNCHANGED <<jobs, messages, executor_type, job_idx, msg_idx, futures,
                   old_results, dispatched, invocations, stores, finished,
                   raised>>

Next ==
    \/ \E args \in JobArgs : add_job(args)
    \/ \E msgs \in SeqsUpTo(Messages, MaxMsgs), et \in ExecutorTypes :
           RunStart(msgs, et)
    \/ LoopJob
    \/ SeqRun
    \/ \E i \in 1..MaxMsgs : PoolInvoke(i)
    \/ \E i \in 1..MaxMsgs : PoolStore(i)
    \/ PoolJoin
    \/ Collect
    \/ RunEnd

Spec == Init /\ [][Next]_vars

----------------------------------------------------------------------------
(* The payloads the normalizer is called with. *)

With(d, k, v) == PDict(SetItem(d.items, k, v))

Content(c) == PDict([content |-> c])

(* What choices[0] of a dict output can be. *)
ChoiceElems ==
    { PDict([message |-> Content(PStr("X"))]),
      PDict([message |-> Content(PInt(5))]),
      PDict([message |-> Content(PNone)]),
      PDict([message |-> PDict(EmptyDict)]),
      PDict([message |-> PNone, delta |-> Content(PStr("tok"))]),
      PDict([message |-> PStr("X")]),
      PDict([delta |-> Content(PStr("tok"))]),
      PDict([delta |-> Content(PNone)]),
      PDict([delta |-> PDict(EmptyDict)]),
      PDict([delta |-> PNone]),
      PDict(EmptyDict),
      PStr("X"),
      PModel("Choice", [message |->
          PModel("ChatCompletionMessage", [content |-> PStr("X")])]) }

ChoicesValues ==
    {PList(<<>>), PStr("X")} \cup {PList(<<e>>) : e \in ChoiceElems}

Usage == PDict([total_tokens |-> PInt(42)])

(* Dict outputs: with and without `choices`, `response`, `usage`, `model`, *)
(* `object`, and one with a field that is not serializable.                *)
DictOutputs ==
    LET plain == {PDict(EmptyDict)}
                    \cup {PDict([choices |-> c]) : c \in ChoicesValues}
    IN  plain
        \cup {With(d, "response", PStr("R")) : d \in plain}
        \cup { PDict([usage |-> Usage, model |-> PStr("gpt-x")]),
               PDict([usage |-> Usage]),
               PDict([model |-> PStr("gpt-x")]),
               PDict([usage |-> PNone, object |-> PStr("chat.completion.chunk")]),
               PDict([object |-> PStr("chat.completion.chunk"),
                      choices |-> PList(<<PDict([delta |-> Content(PStr("tok"))])>>)]),
               PDict([object |-> PStr("chat.completion"),
                      model |-> PStr("gpt-x")]),
               PDict([response |-> PStr("R"), client |-> PObject("TypeError")]) }

ModelChoice(field, content) ==
    PModel("Choice", SetItem(EmptyDict, field, PModel("Part", [content |-> content])))

(* Structured records: OpenAI's ChatCompletion and ChatCompletionChunk and *)
(* a BaseModel of another class.                                           *)
ModelOutputs ==
    { PModel("ChatCompletion",
             [choices |-> PList(<<ModelChoice("message", PStr("X"))>>),
              model |-> PStr("gpt-x"),
              usage |-> PModel("CompletionUsage", [total_tokens |-> PInt(42)])]),
      PModel("ChatCompletion",
             [choices |-> PList(<<ModelChoice("message", PNone)>>)]),
      PModel("ChatCompletion", [choices |-> PList(<<>>)]),
      PModel("ChatCompletionChunk",
             [choices |-> PList(<<ModelChoice("delta", PStr("tok"))>>),
              object |-> PStr("chat.completion.chunk"),
              model |-> PStr("gpt-x")]),
      PModel("ChatCompletionChunk",
             [choices |-> PList(<<ModelChoice("delta", PNone)>>),
              object |-> PStr("chat.completion.chunk")]),
      PModel("ChatCompletionChunk",
             [choices |-> PList(<<ModelChoice("message", PStr("X"))>>)]),
      PModel("Other", [response |-> PStr("R")]) }

OtherOutputs ==
    { PStr("hello"),
      PInt(7),
      PList(<<PInt(7)>>),
      PBytes("{\"response\": \"R\"}"),
      PBytes("{\"choices\": [{\"delta\": {\"content\": null}}]}"),
      PBytes("not json"),
      PObject("TypeError"),
      PObject("ValueError"),
      PObject("pairs") }

Outputs == DictOutputs \cup ModelOutputs \cup OtherOutputs

RawOutputs ==
    { PNone,
      PDict([response |-> PStr("R")]),
      PDict([response |-> PStr("R"), client |-> PObject("TypeError")]),
      PModel("Other", [response |-> PStr("R")]),
      PBytes("not json"),
      PObject("TypeError") }

Inputs ==
    { PDict([model |-> PStr("in-model"),
             messages |-> PList(<<PDict([role |-> PStr("user"),
                                         content |-> PStr("hi")])>>)]),
      PDict([messages |-> PList(<<>>)]),
      PStr("hi") }

(* A call of detect_str_from_output. *)
DetectStr(output) ==
    /\ call' = [fn |-> "detect_str_from_output", args |-> <<output>>]
    /\ ret' = detect_str_from_output(output)
    /\ UNCHANGED wvars

(* A call of extract_data_from_output(output, raw_output). *)
ExtractData(output, raw_output) ==
    /\ call' = [fn |-> "extract_data_from_output",
                args |-> <<output, raw_output>>]
    /\ ret' = extract_data_from_output(output, raw_output)
    /\ UNCHANGED wvars

(* A call of extract_metadata_from_input_output(input, output). *)
ExtractMetadata(input, output) ==
    /\ call' = [fn |-> "extract_metadata_from_input_output",
                args |-> <<input, output>>]
    /\ ret' = extract_metadata_from_input_output(input, output)
    /\ UNCHANGED wvars

NextN ==
    \/ \E output \in Outputs : DetectStr(output)
    \/ \E output \in Outputs \cup {PNone}, raw_output \in RawOutputs :
           ExtractData(output, raw_output)
    \/ \E input \in Inputs, output \in Outputs \cup {PNone} :
           ExtractMetadata(input, output)

SpecN == Init /\ [][NextN]_vars

TypeOKN == call.fn \in {"none", "detect_str_from_output",
                        "extract_data_from_output",
                        "extract_metadata_from_input_output"}

TypeOK ==
    /\ pc \in {"setup", "idle", "loop", "seq", "pool", "collect", "ended"}
    /\ Len(jobs) <= MaxJobs
    /\ outcome \in {"none", "returned", "KeyError", "NotImplementedError",
                    "JobError"}
----------------------------------------------------------------------------
(* Properties of the Workload runner.                                      *)

Returned == pc = "ended" /\ outcome = "returned"

CallEnded == pc = "ended"

DistinctIds(msgs) ==
    \A i, j \in DOMAIN msgs : msgs[i].id = msgs[j].id => i = j

DistinctJobIds(js) ==
    \A k, l \in DOMAIN js : js[k].job_id = js[l].job_id => k = l

(* C1: when the function of some job raised for some message during a      *)
(* Workload.run call, the call ends with that exception, no job after the  *)
(* raising one was dispatched, and Workload.results is what it was before  *)
(* the call (no table returned or stored).                                 *)
C1_FailurePropagates ==
    /\ \A t \in raised : \A k \in dispatched : k <= t[1]
    /\ (CallEnded /\ raised # {}) =>
           /\ outcome = "JobError"
           /\ results = old_results

(* C2: when Workload.run has returned normally, every message id is a key  *)
(* of every job's job_results and the table has an entry for every         *)
(* (message id, job_id) pair; when the call ended because a pair was       *)
(* missing, it ended with KeyError and stored no table.                    *)
C2_ReturnedTableComplete ==
    /\ Returned =>
           \A i \in DOMAIN messages, k \in DOMAIN jobs :
               /\ messages[i].id \in DOMAIN jobs[k].job_results
               /\ messages[i].id \in DOMAIN results
               /\ jobs[k].job_id \in DOMAIN results[messages[i].id]
    /\ (CallEnded /\ outcome \in {"returned", "KeyError"}) =>
           (outcome = "KeyError" <=>
               \E i \in DOMAIN messages, k \in DOMAIN jobs :
                   messages[i].id \notin DOMAIN jobs[k].job_results)
    /\ (CallEnded /\ outcome = "KeyError") => results = old_results

(* A normal return of a parallel call whose table holds, for both messages *)
(* and both jobs, entries that the jobs stored.                            *)
C2_Witness ==
    /\ Returned
    /\ executor_type = "parallel"
    /\ Len(jobs) = 2
    /\ Len(messages) = 2
    /\ DistinctIds(messages)
    /\ DistinctJobIds(jobs)

(* C3 as stated: after a sequential call on messages with distinct ids,    *)
(* results[m.id][j.job_id] is the value of j's function on (m, j.params),  *)
(* for every message m and every job j of the workload.                    *)
C3_SequentialEqualsStandalone ==
    (Returned /\ executor_type = "sequential" /\ Len(jobs) >= 1
        /\ DistinctIds(messages)) =>
        \A i \in DOMAIN messages, k \in DOMAIN jobs :
            results[messages[i].id][jobs[k].job_id] =
                JobFunction(jobs[k].job_function, messages[i], jobs[k].params)

(* C3 amended: after a sequential call on messages with distinct ids,      *)
(* results[m.id][j.job_id] is the value on (m, params) of the function of  *)
(* the job registered last under the id j.job_id, which is j itself when   *)
(* no later job shares its id.                                             *)
C3_SequentialEqualsLastJobStandalone ==
    (Returned /\ executor_type = "sequential" /\ Len(jobs) >= 1
        /\ DistinctIds(messages)) =>
        \A i \in DOMAIN messages, k \in DOMAIN jobs :
            (\A l \in DOMAIN jobs : l > k => jobs[l].job_id # jobs[k].job_id)
            => results[messages[i].id][jobs[k].job_id] =
                JobFunction(jobs[k].job_function, messages[i], jobs[k].params)

(* A sequential call of two jobs with the same job_id on two messages has  *)
(* returned.                                                               *)
C3_Witness ==
    /\ Returned
    /\ executor_type = "sequential"
    /\ Len(jobs) = 2
    /\ jobs[1].job_id = jobs[2].job_id
    /\ jobs[1].job_function # jobs[2].job_function
    /\ Len(messages) = 2
    /\ DistinctIds(messages)

(* C4: a Workload.run call with an executor_type other than "parallel" and *)
(* "sequential" ends with NotImplementedError, has called no job function, *)
(* written no job_results and left Workload.results as it was.             *)
C4_UnsupportedModeFails ==
    (CallEnded /\ executor_type \notin {"parallel", "sequential"}) =>
        /\ outcome = "NotImplementedError"
        /\ invocations = EmptyDict
        /\ stores = EmptyDict
        /\ results = old_results

(* C5: in parallel mode the jobs are dispatched in registration order, a   *)
(* job.run call of a job has started only if every job.run call of every   *)
(* earlier job (one per message) has ended, and the table is built only    *)
(* when every call of every job has ended.                                 *)
C5_PerJobJoinBarrier ==
    executor_type = "parallel" =>
        /\ \A k \in dispatched : \A l \in 1..(k - 1) : l \in dispatched
        /\ \A t \in DOMAIN invocations :
               /\ t[1] \in dispatched
               /\ \A l \in 1..(t[1] - 1), i \in DOMAIN messages :
                      <<l, i>> \in finished
        /\ (pc = "collect" \/ (CallEnded /\ outcome \in {"returned", "KeyError"}))
               => \A k \in DOMAIN jobs, i \in DOMAIN messages :
                      <<k, i>> \in finished

(* A worker of the second job's pool has called the job function while     *)
(* another task of that pool is still pending.                             *)
C5_Witness ==
    /\ executor_type = "parallel"
    /\ pc = "pool"
    /\ job_idx = 2
    /\ Len(messages) = 2
    /\ \E i, j \in DOMAIN futures :
           futures[i].state = "running" /\ futures[j].state = "pending"

(* C9: every value of the table a Workload.run call returned is a value    *)
(* that a job function produced during that same call, for a message of    *)
(* that id and a job of that job_id.                                       *)
C9_TableFromThisCall ==
    Returned =>
        \A i \in DOMAIN messages, k \in DOMAIN jobs :
            \E t \in DOMAIN invocations \ raised :
                /\ jobs[t[1]].job_id = jobs[k].job_id
                /\ messages[t[2]].id = messages[i].id
                /\ results[messages[i].id][jobs[k].job_id] =
                       JobFunction(jobs[t[1]].job_function, messages[t[2]],
                                   jobs[t[1]].params)

(* C10: in a parallel or sequential call on messages with distinct ids in  *)
(* which no job function raised, no job function is called twice for a     *)
(* message and no slot is written twice, and once the jobs are through     *)
(* every job function has been called exactly once for every message and   *)
(* every (job, message.id) slot has been written exactly once.             *)
C10_ExactlyOnce ==
    (executor_type \in {"parallel", "sequential"} /\ DistinctIds(messages)
        /\ raised = {}) =>
        /\ \A t \in DOMAIN invocations : invocations[t] = 1
        /\ \A s \in DOMAIN stores : stores[s] = 1
        /\ (pc = "collect" \/ CallEnded) =>
               \A k \in DOMAIN jobs, i \in DOMAIN messages :
                   /\ Count(invocations, <<k, i>>) = 1
                   /\ Count(stores, <<k, messages[i].id>>) = 1

(* Two jobs are through two messages in parallel mode, nothing raised. *)
C10_Witness ==
    /\ pc = "collect"
    /\ executor_type = "parallel"
    /\ raised = {}
    /\ Len(jobs) = 2
    /\ Len(messages) = 2
    /\ DistinctIds(messages)

(* The position in msgs of the message with this id. *)
PositionOfId(msgs, id) == CHOOSE i \in DOMAIN msgs : msgs[i].id = id

(* The job registered last under this job_id. *)
LastPositionOfJobId(js, jid) ==
    CHOOSE k \in DOMAIN js :
        js[k].job_id = jid /\ \A l \in DOMAIN js : l > k => js[l].job_id # jid

(* C11: the execution mode does not change the outcome.  For messages with *)
(* pairwise distinct ids and job functions that do not raise, a parallel   *)
(* call, under every interleaving of its workers, and a sequential call    *)
(* end in the same way, given by the workload and the messages alone: the  *)
(* call returns; in every job, job_results holds under each message's id   *)
(* the value of the job's function on that message, and no step of the     *)
(* call touches job_results under another id; the table holds for each     *)
(* message id and job_id that value of the job registered last under the   *)
(* job_id.                                                                 *)
C11_ModeIndependent ==
    [][ /\ Len(jobs') = Len(jobs) =>
               \A k \in DOMAIN jobs :
                   \A id \in {m.id : m \in Messages} \ MessageIds(messages') :
                       /\ id \in DOMAIN jobs'[k].job_results
                              <=> id \in DOMAIN jobs[k].job_results
                       /\ id \in DOMAIN jobs[k].job_results
                              => jobs'[k].job_results[id]
                                     = jobs[k].job_results[id]
        /\ (pc' = "ended" /\ executor_type' \in {"parallel", "sequential"}
               /\ DistinctIds(messages') /\ raised' = {}) =>
               /\ outcome' = "returned"
               /\ \A k \in DOMAIN jobs' : \A i \in DOMAIN messages' :
                      /\ messages'[i].id \in DOMAIN jobs'[k].job_results
                      /\ jobs'[k].job_results[messages'[i].id] =
                             JobFunction(jobs'[k].job_function, messages'[i],
                                         jobs'[k].params)
               /\ results' =
                      [id \in MessageIds(messages') |->
                          [jid \in JobIds(jobs') |->
                              LET k == LastPositionOfJobId(jobs', jid)
                              IN  JobFunction(jobs'[k].job_function,
                                      messages'[PositionOfId(messages', id)],
                                      jobs'[k].params)]]
      ]_vars

(* A parallel call of two jobs on two messages with distinct ids, in which *)
(* nothing raised, has returned on a workload that an earlier call had     *)
(* stored a table in.                                                      *)
C11_Witness ==
    /\ Returned
    /\ executor_type = "parallel"
    /\ raised = {}
    /\ Len(jobs) = 2
    /\ Len(messages) = 2
    /\ DistinctIds(messages)
    /\ old_results # EmptyDict

----------------------------------------------------------------------------
(* Properties of the normalizer.                                           *)

(* C6: a call of detect_str_from_output or of extract_data_from_output     *)
(* returns a value, whatever the kind of its arguments: no exception       *)
(* leaves it.                                                              *)
C6_NeverPropagates ==
    call.fn \in {"detect_str_from_output", "extract_data_from_output"}
        => ~IsError(ret)

(* The dict outputs whose `choices` is a non-empty list. *)
ChoicesCall ==
    /\ call.fn = "detect_str_from_output"
    /\ call.args[1].kind = "dict"
    /\ "choices" \in DOMAIN call.args[1].items
    /\ call.args[1].items.choices.kind = "list"
    /\ Len(call.args[1].items.choices.elems) > 0

FirstChoice == call.args[1].items.choices.elems[1]

IsMapping(x) == x.kind = "dict"

Absent(d, k) == k \notin DOMAIN d.items

NullOrAbsent(d, k) == Absent(d, k) \/ d.items[k] = PNone

(* C7 as stated: for a dict output whose `choices` is a non-empty list:    *)
(* a message with non-null content gives that content as a string; no      *)
(* message gives delta.content as a string, or "" when it is null or       *)
(* absent; the result is never the value under `response`, and never the   *)
(* string form of the whole output.                                        *)
C7_ShapeRulesInOrder ==
    ChoicesCall =>
        /\ (IsMapping(FirstChoice) /\ ~NullOrAbsent(FirstChoice, "message")
              /\ IsMapping(FirstChoice.items.message)
              /\ ~NullOrAbsent(FirstChoice.items.message, "content"))
           => ret = Str(FirstChoice.items.message.items.content)
        /\ (IsMapping(FirstChoice) /\ NullOrAbsent(FirstChoice, "message"))
           => IF ~NullOrAbsent(FirstChoice, "delta")
                   /\ IsMapping(FirstChoice.items.delta)
                   /\ ~NullOrAbsent(FirstChoice.items.delta, "content")
              THEN ret = Str(FirstChoice.items.delta.items.content)
              ELSE ret = PStr("")
        /\ "response" \in DOMAIN call.args[1].items
           => ret # call.args[1].items.response
        /\ ret # Str(call.args[1])

(* C7 amended: for a dict output whose `choices` is a non-empty list with  *)
(* a mapping first: a message mapping with non-null content gives that     *)
(* content as a string; no message, with delta absent or a mapping, gives  *)
(* delta.content as a string, or "" when it is null or absent; a message   *)
(* mapping whose content is null or absent makes the choices rule not      *)
(* apply, and the result is the value under `response` when that key is    *)
(* there, else the string form of the whole output.  When choices[0], its  *)
(* message or its delta is of another kind, the call raises                *)
(* AttributeError.  A dict output not of this shape gives the value under  *)
(* `response`, or its string form when it has no such key.                 *)
C7_ShapeRulesAmended ==
    (call.fn = "detect_str_from_output" /\ call.args[1].kind = "dict") =>
        LET output == call.args[1]
            fallthrough == IF "response" \in DOMAIN output.items
                           THEN output.items.response
                           ELSE Str(output)
        IN  IF ~ChoicesCall THEN ret = fallthrough
            ELSE IF ~IsMapping(FirstChoice) THEN ret = PError("AttributeError")
            ELSE IF ~NullOrAbsent(FirstChoice, "message")
            THEN LET message == FirstChoice.items.message
                 IN  IF ~IsMapping(message) THEN ret = PError("AttributeError")
                     ELSE IF NullOrAbsent(message, "content")
                     THEN ret = fallthrough
                     ELSE ret = Str(message.items.content)
            ELSE IF Absent(FirstChoice, "delta") THEN ret = PStr("")
            ELSE LET delta == FirstChoice.items.delta
                 IN  IF ~IsMapping(delta) THEN ret = PError("AttributeError")
                     ELSE IF NullOrAbsent(delta, "content") THEN ret = PStr("")
                     ELSE ret = Str(delta.items.content)

(* The output has `choices` with a message whose content is null, and      *)
(* `response`: the call has returned the value under `response`.           *)
C7_Witness ==
    /\ ChoicesCall
    /\ IsMapping(FirstChoice)
    /\ ~Absent(FirstChoice, "message")
    /\ FirstChoice.items.message = PDict([content |-> PNone])
    /\ "response" \in DOMAIN call.args[1].items
    /\ ret = PStr("R")

(* What C8 says of extract_metadata_from_input_output: the usage and the   *)
(* model are read from the output as a mapping, whether it is given as a   *)
(* dict or as a structured record.                                         *)
AsMapping(x) == IF x.kind = "model" THEN Dump(x) ELSE x

MetadataOfClaim(input, output) ==
    LET m == AsMapping(output)
        usage == IF m.kind = "dict" /\ "usage" \in DOMAIN m.items
                 THEN m.items.usage
                 ELSE IF m.kind = "dict" /\ "object" \in DOMAIN m.items
                         /\ m.items.object = PStr("chat.completion.chunk")
                 THEN PDict([completion_tokens |-> PInt(1)])
                 ELSE PNone
        model == IF m.kind = "dict" /\ "model" \in DOMAIN m.items
                 THEN m.items.model
                 ELSE IF input.kind = "dict" /\ "model" \in DOMAIN input.items
                 THEN input.items.model
                 ELSE PNone
        keys == (IF usage = PNone THEN {} ELSE DOMAIN usage.items)
                    \cup (IF model = PNone THEN {} ELSE {"model"})
    IN  PDict([k \in keys |-> IF k = "model" /\ model # PNone
                              THEN model ELSE usage.items[k]])

(* C8: extract_metadata_from_input_output(input, output) returns the       *)
(* entries of the detected usage and, under `model`, output's model field  *)
(* if there is one, else input's, for a dict output and for a structured   *)
(* record alike; what is not detected is absent.                           *)
C8_MetadataMerged ==
    call.fn = "extract_metadata_from_input_output"
        => ret = MetadataOfClaim(call.args[1], call.args[2])
====
